---- MODULE Spec2Model ----
(***************************************************************************)
(* A model of kth-node-passport-cas: the CAS gateway strategy             *)
(* (src/cas-gateway-strategy.js) and the express route handlers           *)
(* (src/routeHandlers.js).                                                 *)
(*                                                                         *)
(* JavaScript values are modelled as follows.                              *)
(*   - undefined is the string Undefined; a number option is a record     *)
(*     [t |-> "number", n |-> k]; Truthy/typeof follow JavaScript.         *)
(*   - a URL is a record [origin, path, query]: origin is the pair        *)
(*     <<protocol, host>> (<<>> for a relative URL), path the sequence of *)
(*     its segments ('/cas/login' is <<"cas", "login">>), query the       *)
(*     sequence of <<key, value>> pairs of its query string.  Parsing     *)
(*     (url.parse(.., true)) turns the pairs into an object whose         *)
(*     property for a key is the sequence of that key's values ( <<>> :   *)
(*     undefined, <<v>> : the string v, longer: an array); formatting     *)
(*     (url.format / querystring.stringify) turns an object back into     *)
(*     pairs.  Percent-encoding is what keeps keys and values apart, so    *)
(*     values stay opaque strings.                                         *)
(***************************************************************************)
EXTENDS Integers, Sequences, FiniteSets, TLC

VARIABLES
  ctorArgs,   \* the arguments of the GatewayStrategy constructor call
  strategy,   \* the GatewayStrategy instance, or the exception thrown
  session,    \* req.session of the one browser session
  calls,      \* the authenticate calls in flight, in the order they began
  last,       \* the authenticate call that ended most recently
  history,    \* what happened to the session, oldest first
  urlProbe,   \* a request and the validation URL validateService builds for it
  parseProbe, \* an answer of parseCasXml and what parseResponse makes of it
  secret,     \* server.locals.secret, the proxy-ticket registry
  pgt,        \* the pgtCallback request handled last and its response
  visit       \* the browser of the session: where it is, who is logged in

vars == <<ctorArgs, strategy, session, calls, last, history, urlProbe,
          parseProbe, secret, pgt, visit>>

----------------------------------------------------------------------------
(* Bounds of the model *)

MaxRequests == 4

MaxCalls == 2

MaxPgtCallbacks == 3

----------------------------------------------------------------------------
(* JavaScript values *)

Undefined == "undefined"

Num(k) == [t |-> "number", n |-> k]

NoNum == [t |-> "undefined", n |-> 0]

NotANum == [t |-> "string", n |-> 0]

\* !!v for a number option or session field
TruthyNum(v) == v.t = "string" \/ (v.t = "number" /\ v.n # 0)

\* !!v for a string-or-undefined value
TruthyStr(v) == v # Undefined /\ v # ""

\* obj[key] of a parsed query string: the values given for key, in order
QueryParam(query, key) ==
  LET idx == { i \in 1..Len(query) : query[i][1] = key }
      RECURSIVE Collect(_)
      Collect(i) == IF i > Len(query) THEN <<>>
                    ELSE IF i \in idx THEN <<query[i][2]>> \o Collect(i + 1)
                    ELSE Collect(i + 1)
  IN  Collect(1)

\* !!v for a query parameter: undefined and '' are falsy, an array is truthy
TruthyParam(v) == v # <<>> /\ v # <<"">>

----------------------------------------------------------------------------
(* The constructor, src/cas-gateway-strategy.js:9-68 *)

DefaultMaxAttempts == 2

DefaultAnonymous == "anonymous-user"

NoUrl == [origin |-> <<>>, path |-> <<>>, query |-> <<>>]

CasUndefined == [t |-> "undefined", origin |-> <<>>, path |-> <<>>, query |-> <<>>]

CasEmpty == [t |-> "string", origin |-> <<>>, path |-> <<>>, query |-> <<>>]

CasRoot == [t |-> "string", origin |-> <<"https", "login.example.org">>,
            path |-> <<>>, query |-> <<>>]

CasUnderPath == [t |-> "string", origin |-> <<"https", "url.to">>,
                 path |-> <<"cas">>, query |-> <<>>]

CasWithQuery == [t |-> "string", origin |-> <<"https", "url.to">>,
                 path |-> <<"cas">>, query |-> << <<"ticket", "ST-old">> >>]

\* url.resolve(base, absPath) for a path starting with '/': the base's
\* origin with the base's own path and query string replaced
UrlResolve(base, absPath) ==
  [origin |-> base.origin, path |-> absPath, query |-> <<>>]

\* options.maxAttempts || defaults.maxAttempts
MaxAttemptsOption(opt) == IF TruthyNum(opt) THEN opt ELSE Num(DefaultMaxAttempts)

\* options.anonymous || defaults.anonymous
AnonymousOption(opt) == IF TruthyStr(opt) THEN opt ELSE DefaultAnonymous

\* options.parseCasXml || defaults.parseCasXml, options.request || defaults.request
FunctionOption(opt) == IF TruthyStr(opt) THEN opt ELSE "function"

NonString == "<non-string>"

Thrown(msg) ==
  [status |-> "thrown", error |-> msg, anonymous |-> Undefined,
   maxAttempts |-> NoNum, loginUrl |-> NoUrl, serviceValidateUrl |-> NoUrl]

\* the options object the constructor works on: the defaults when the first
\* argument is the verify function itself
EffectiveOptions(args) ==
  IF args.optionsIsFunction
    THEN [casUrl |-> CasEmpty, parseCasXml |-> "function", request |-> "function",
          maxAttempts |-> Num(DefaultMaxAttempts), anonymous |-> DefaultAnonymous,
          verify |-> "function"]
    ELSE [casUrl |-> args.casUrl, parseCasXml |-> args.parseCasXml,
          request |-> args.request, maxAttempts |-> args.maxAttempts,
          anonymous |-> args.anonymous, verify |-> args.verify]

\* new GatewayStrategy(options, verify): the instance, or the exception
GatewayStrategy(args) ==
  LET o == EffectiveOptions(args)
      parseCasXml == FunctionOption(o.parseCasXml)
      request == FunctionOption(o.request)
      anonymous == AnonymousOption(o.anonymous)
      maxAttempts == MaxAttemptsOption(o.maxAttempts)
  IN  IF o.casUrl.t = "undefined"
        THEN Thrown("Parameter 'url' must be a string")
      ELSE IF o.verify # "function"
        THEN Thrown("GatewayStrategy requires a verify callback")
      ELSE IF parseCasXml # "function"
        THEN Thrown("GatewayStrategy requires xml2js")
      ELSE IF request # "function"
        THEN Thrown("GatewayStrategy requires request")
      ELSE IF anonymous = NonString
        THEN Thrown("GatewayStrategy requires a fallback username for anonymous users")
      ELSE IF maxAttempts.t # "number" \/ maxAttempts.n < 1
        THEN Thrown("GatewayStrategy requires a positive number for max attempts")
      ELSE IF o.casUrl.origin = <<>>
        THEN Thrown("GatewayStrategy requires a CAS URL")
      ELSE [status |-> "ready", error |-> Undefined, anonymous |-> anonymous,
            maxAttempts |-> maxAttempts,
            loginUrl |-> UrlResolve(o.casUrl, <<"login">>),
            serviceValidateUrl |-> UrlResolve(o.casUrl, <<"serviceValidate">>)]

NotConstructed ==
  [status |-> "none", error |-> Undefined, anonymous |-> Undefined,
   maxAttempts |-> NoNum, loginUrl |-> NoUrl, serviceValidateUrl |-> NoUrl]

NoArgs ==
  [optionsIsFunction |-> FALSE, casUrl |-> CasUndefined, parseCasXml |-> Undefined,
   request |-> Undefined, maxAttempts |-> NoNum, anonymous |-> Undefined,
   verify |-> Undefined]

\* the constructor calls tried when the constructor is examined on its own
CtorArgs ==
  [optionsIsFunction : BOOLEAN,
   casUrl : {CasUndefined, CasEmpty, CasRoot, CasUnderPath, CasWithQuery},
   parseCasXml : {Undefined, "function", "not-a-function"},
   request : {Undefined, "function"},
   maxAttempts : {NoNum, NotANum} \cup { Num(k) : k \in -1..3 },
   anonymous : {Undefined, "", "guest", NonString},
   verify : {Undefined, "function"}]

----------------------------------------------------------------------------
(* Requests, sessions and authenticate calls *)

Host == <<"http", "host">>

Req(path, query) == [origin |-> Host, path |-> path, query |-> query]

\* req.protocol + '://' + req.get('host') + req.originalUrl
ServiceUrl(req) == [origin |-> req.origin, path |-> req.path, query |-> req.query]

NoOutcome == [kind |-> "none", user |-> Undefined, info |-> Undefined,
              err |-> Undefined, url |-> NoUrl]

\* this.success(user, info)
Success(user, info) == [NoOutcome EXCEPT !.kind = "success", !.user = user, !.info = info]

\* this.fail(info)
Fail(info) == [NoOutcome EXCEPT !.kind = "fail", !.info = info]

\* this.error(err)
Error(err) == [NoOutcome EXCEPT !.kind = "error", !.err = err]

\* this.redirect(url)
Redirect(url) == [NoOutcome EXCEPT !.kind = "redirect", !.url = url]

NoValidation == [url |-> NoUrl, ticket |-> <<>>, service |-> NoUrl]

NoVerifyArg == [status |-> FALSE, user |-> Undefined, ticket |-> <<>>]

NoVerifyResult == [err |-> Undefined, user |-> Undefined, info |-> Undefined]

NoParse == [err |-> Undefined, username |-> Undefined]

NoAnswer == [err |-> Undefined,
             result |-> [t |-> "null",
                         response |-> [t |-> "absent", failure |-> <<>>, success |-> <<>>]]]

IdleCall ==
  [pc |-> "idle", req |-> Req(<<>>, <<>>), ticket |-> <<>>,
   validation |-> NoValidation, http |-> "none", answer |-> NoAnswer,
   parsed |-> NoParse,
   requests |-> 0,
   verifyArg |-> NoVerifyArg, verifyCalls |-> 0, verifyRes |-> NoVerifyResult,
   outcome |-> NoOutcome, outcomes |-> 0]

\* the call after this.success, this.fail, this.error or this.redirect
Ended(call, outcome) ==
  [call EXCEPT !.pc = "done", !.outcome = outcome, !.outcomes = call.outcomes + 1]

----------------------------------------------------------------------------
(* GatewayStrategy.prototype.authenticate, src/cas-gateway-strategy.js:72-101 *)

GatewayCeiling == 2

\* a strategy that gives up one attempt later
AtCeilingThree(sess) == sess.gatewayAttempts = Num(3)

\* req.session.gatewayAttempts === 2
AtCeiling(sess) == sess.gatewayAttempts = Num(GatewayCeiling)

\* if (!req.session.gatewayAttempts) ... = 1 else ... += 1
NextAttempts(v) == IF ~TruthyNum(v) THEN Num(1) ELSE Num(v.n + 1)

\* a ticket branch that forgets the reset
TicketResetSkipped(sess) == sess

\* req.session.gatewayAttempts = 0
TicketReset(sess) == [sess EXCEPT !.gatewayAttempts = Num(0)]

\* url.format(loginUrl) after delete loginUrl.search and
\* loginUrl.query = { gateway: true, service: serviceUrl }
LoginRedirectUrl(strat, serviceUrl) ==
  [origin |-> strat.loginUrl.origin, path |-> strat.loginUrl.path,
   query |-> << <<"gateway", "true">>, <<"service", serviceUrl>> >>]

\* querystring.stringify({ nextUrl: v }): undefined is written as the empty
\* string, an array as one pair per element
StringifyNextUrl(v) ==
  IF v = <<>> THEN << <<"nextUrl", "">> >>
  ELSE [i \in 1..Len(v) |-> <<"nextUrl", v[i]>>]

\* a service URL that keeps the request's whole query string
ValidationServiceUnstripped(serviceUrl) == serviceUrl

\* url.format(parsedServiceUrl) after delete parsedServiceUrl.search and
\* parsedServiceUrl.query = { nextUrl: parsedServiceUrl.query.nextUrl }
ValidationService(serviceUrl) ==
  [origin |-> serviceUrl.origin, path |-> serviceUrl.path,
   query |-> StringifyNextUrl(QueryParam(serviceUrl.query, "nextUrl"))]

\* the GET that validateService issues: serviceValidateUrl with
\* query = { ticket: ticket, service: url.format(parsedServiceUrl) }
ValidationRequest(strat, ticket, serviceUrl) ==
  [url |-> strat.serviceValidateUrl, ticket |-> ticket,
   service |-> ValidationService(serviceUrl)]

\* one authenticate call as the session saw it: the ticket parameter, the
\* branch taken, gatewayAttempts before and after
Event(ticket, result, sessBefore, sessAfter) ==
  [op |-> "authenticate", ticket |-> ticket, result |-> result,
   before |-> sessBefore.gatewayAttempts, attempts |-> sessAfter.gatewayAttempts]

\* what authenticate does to the session and to the call
AuthenticateBody(req) ==
  LET ticket == QueryParam(req.query, "ticket")
      serviceUrl == ServiceUrl(req)
      call == [IdleCall EXCEPT !.req = req, !.ticket = ticket]
  IN     IF ~TruthyParam(ticket)
           THEN IF AtCeiling(session)
                  THEN /\ last' = Ended(call, Success(strategy.anonymous, Undefined))
                       /\ history' = Append(history, Event(ticket, "success", session, session))
                       /\ UNCHANGED <<session, calls>>
                  ELSE /\ session' = [session EXCEPT
                                        !.gatewayAttempts = NextAttempts(session.gatewayAttempts)]
                       /\ last' = Ended(call, Redirect(LoginRedirectUrl(strategy, serviceUrl)))
                       /\ history' = Append(history, Event(ticket, "redirect", session, session'))
                       /\ UNCHANGED calls
           ELSE /\ session' = TicketReset(session)
                /\ calls' = Append(calls,
                               [call EXCEPT !.pc = "request",
                                  !.validation = ValidationRequest(strategy, ticket, serviceUrl),
                                  !.requests = call.requests + 1])
                /\ history' = Append(history, Event(ticket, "validate", session, session'))
                /\ UNCHANGED last

\* an authenticate call on a request that reaches the strategy directly
Authenticate(req) ==
  /\ strategy.status = "ready"
  /\ Len(history) < MaxRequests
  /\ Len(calls) < MaxCalls
  /\ AuthenticateBody(req)
  /\ UNCHANGED <<ctorArgs, strategy, urlProbe, parseProbe, secret, pgt, visit>>

----------------------------------------------------------------------------
(* GatewayStrategy.prototype.parseResponse, src/cas-gateway-strategy.js:147-186 *)

(* What parseCasXml hands to its callback.  The result is null (an empty  *)
(* body) or an object; its 'cas:serviceResponse' property is absent, the  *)
(* empty string (an element with no attribute and no child) or an object  *)
(* whose 'cas:authenticationFailure' and 'cas:authenticationSuccess'      *)
(* properties are arrays of elements ( <<>> : no such property).  An       *)
(* element without attributes is a string, [t |-> "string"]; one with     *)
(* attributes is an object whose text is its '_' property.                 *)

NoResponse == [t |-> "absent", failure |-> <<>>, success |-> <<>>]

EmptyResponse == [t |-> "string", failure |-> <<>>, success |-> <<>>]

Response(failure, success) == [t |-> "object", failure |-> failure, success |-> success]

NullResult == [t |-> "null", response |-> NoResponse]

Result(response) == [t |-> "object", response |-> response]

\* a failure element: text is its content; withAttrs tells whether xml2js
\* made it an object (text under '_') or a bare string
FailureElem(withAttrs, text) == [t |-> IF withAttrs THEN "object" ELSE "string", text |-> text]

\* a success element: the texts of its cas:user children; without
\* attributes and children xml2js makes it the empty string
SuccessElem(users) == [t |-> "object", users |-> users]

EmptySuccessElem == [t |-> "string", users |-> <<>>]

\* _head(array) of an array of strings
Head_(array) == IF Len(array) > 0 THEN array[1] ELSE Undefined

\* _prop(result, 'cas:serviceResponse')
PropResponse(result) ==
  IF result.t = "object" /\ result.response.t = "object" THEN result.response
  ELSE NoResponse

\* _prop(_head(_prop(response, 'cas:authenticationFailure')), '_')
PropFailureText(response) ==
  IF /\ Len(response.failure) > 0
     /\ response.failure[1].t = "object"
     /\ TruthyStr(response.failure[1].text)
    THEN response.failure[1].text
    ELSE Undefined

\* _head(_prop(_head(_prop(response, 'cas:authenticationSuccess')), 'cas:user'))
PropUsername(response) ==
  IF /\ Len(response.success) > 0
     /\ response.success[1].t = "object"
     /\ TruthyStr(Head_(response.success[1].users))
    THEN Head_(response.success[1].users)
    ELSE Undefined

\* parseResponse without the check for the envelope
parseResponseNoEnvelopeCheck(err, result) ==
  IF err # Undefined THEN [err |-> err, username |-> Undefined]
  ELSE LET response == IF result.t = "object" THEN result.response ELSE NoResponse
       IN  IF PropFailureText(response) # Undefined
             THEN [err |-> PropFailureText(response), username |-> Undefined]
           ELSE IF PropUsername(response) # Undefined
             THEN [err |-> Undefined, username |-> PropUsername(response)]
           ELSE [err |-> "No username found", username |-> Undefined]

\* parseResponse looking for the username before the failure
parseResponseSuccessFirst(err, result) ==
  IF err # Undefined THEN [err |-> err, username |-> Undefined]
  ELSE LET response == PropResponse(result)
       IN  IF response.t # "object"
             THEN [err |-> "Badly formatted response", username |-> Undefined]
           ELSE IF PropUsername(response) # Undefined
             THEN [err |-> Undefined, username |-> PropUsername(response)]
           ELSE IF PropFailureText(response) # Undefined
             THEN [err |-> PropFailureText(response), username |-> Undefined]
           ELSE [err |-> "No username found", username |-> Undefined]

\* the (err, username) parseResponse hands to its callback, given the
\* (err, result) parseCasXml handed to parseResponse's
parseResponse(err, result) ==
  IF err # Undefined THEN [err |-> err, username |-> Undefined]
  ELSE LET response == PropResponse(result)
       IN  IF response.t # "object"
             THEN [err |-> "Badly formatted response", username |-> Undefined]
           ELSE IF PropFailureText(response) # Undefined
             THEN [err |-> PropFailureText(response), username |-> Undefined]
           ELSE IF PropUsername(response) # Undefined
             THEN [err |-> Undefined, username |-> PropUsername(response)]
           ELSE [err |-> "No username found", username |-> Undefined]

----------------------------------------------------------------------------
(* validateService's callbacks and verified, src/cas-gateway-strategy.js:117-145 *)

\* the c-th call in flight ends with this outcome
Finish(c, call, outcome) ==
  /\ last' = Ended(call, outcome)
  /\ calls' = SubSeq(calls, 1, c - 1) \o SubSeq(calls, c + 1, Len(calls))

\* a request callback that issues the GET again after a transport error
RequestCallbackRetrying(c, err) ==
  /\ c \in DOMAIN calls
  /\ calls[c].pc = "request"
  /\ IF err # Undefined
       THEN IF calls[c].requests < 2
              THEN /\ calls' = [calls EXCEPT ![c].requests = calls[c].requests + 1]
                   /\ UNCHANGED last
              ELSE Finish(c, [calls[c] EXCEPT !.http = "error"], Error(err))
       ELSE /\ calls' = [calls EXCEPT ![c].pc = "parse", ![c].http = "ok"]
            /\ UNCHANGED last
  /\ UNCHANGED <<ctorArgs, strategy, session, history, urlProbe, parseProbe, secret, pgt, visit>>

\* this.request's callback (err, response, body)
RequestCallback(c, err) ==
  /\ c \in DOMAIN calls
  /\ calls[c].pc = "request"
  /\ IF err # Undefined
       THEN Finish(c, [calls[c] EXCEPT !.http = "error"], Error(err))
       ELSE /\ calls' = [calls EXCEPT ![c].pc = "parse", ![c].http = "ok"]
            /\ UNCHANGED last
  /\ UNCHANGED <<ctorArgs, strategy, session, history, urlProbe, parseProbe, secret, pgt, visit>>

\* a verify argument that leaves the ticket out
VerifyArgWithoutTicket(username, ticket) ==
  [status |-> TRUE, user |-> username, ticket |-> <<>>]

\* this.verify({ status: true, user: username, ticket: ticket }, ...)
VerifyArg(username, ticket) == [status |-> TRUE, user |-> username, ticket |-> ticket]

\* a parse callback that reports the error and goes on to verify
ParseCallbackFallingThrough(c, err, result) ==
  /\ c \in DOMAIN calls
  /\ calls[c].pc = "parse"
  /\ LET r == parseResponse(err, result)
         call == [calls[c] EXCEPT !.answer = [err |-> err, result |-> result],
                                  !.parsed = r]
         reported == IF r.err # Undefined THEN Ended(call, Error(r.err)) ELSE call
     IN  /\ calls' = [calls EXCEPT ![c] =
                [reported EXCEPT !.pc = "verify",
                                 !.verifyArg = VerifyArg(r.username, call.ticket),
                                 !.verifyCalls = call.verifyCalls + 1]]
         /\ last' = IF r.err # Undefined THEN reported ELSE last
  /\ UNCHANGED <<ctorArgs, strategy, session, history, urlProbe, parseProbe, secret, pgt, visit>>

\* parseCasXml's callback (err, result) inside parseResponse, and
\* parseResponse's callback (err, username) inside validateService
ParseCallback(c, err, result) ==
  /\ c \in DOMAIN calls
  /\ calls[c].pc = "parse"
  /\ LET r == parseResponse(err, result)
         call == [calls[c] EXCEPT !.answer = [err |-> err, result |-> result],
                                  !.parsed = r]
     IN  IF r.err # Undefined
           THEN Finish(c, call, Error(r.err))
           ELSE /\ calls' = [calls EXCEPT ![c] =
                      [call EXCEPT !.pc = "verify",
                                   !.verifyArg = VerifyArg(r.username, call.ticket),
                                   !.verifyCalls = call.verifyCalls + 1]]
                /\ UNCHANGED last
  /\ UNCHANGED <<ctorArgs, strategy, session, history, urlProbe, parseProbe, secret, pgt, visit>>

\* verified treating a missing user as an error
verifiedRejectIsError(err, user, info) ==
  IF err # Undefined THEN Error(err)
  ELSE IF ~TruthyStr(user) THEN Error(info)
  ELSE Success(user, info)

\* the outcome GatewayStrategy.prototype.verified picks
verified(err, user, info) ==
  IF err # Undefined THEN Error(err)
  ELSE IF ~TruthyStr(user) THEN Fail(info)
  ELSE Success(user, info)

\* a verified callback that resets the counter when the validation ends
VerifiedCallbackResetting(c, res) ==
  /\ c \in DOMAIN calls
  /\ calls[c].pc = "verify"
  /\ Finish(c, [calls[c] EXCEPT !.verifyRes = res], verified(res.err, res.user, res.info))
  /\ session' = TicketReset(session)
  /\ UNCHANGED <<ctorArgs, strategy, history, urlProbe, parseProbe, secret, pgt, visit>>

\* the application's verify calls back verified(err, user, info)
VerifiedCallback(c, res) ==
  /\ c \in DOMAIN calls
  /\ calls[c].pc = "verify"
  /\ Finish(c, [calls[c] EXCEPT !.verifyRes = res], verified(res.err, res.user, res.info))
  /\ UNCHANGED <<ctorArgs, strategy, session, history, urlProbe, parseProbe, secret, pgt, visit>>

----------------------------------------------------------------------------
(* pgtCallbackHandler, src/routeHandlers.js:108-114 *)

EmptyRegistry == [k \in {} |-> Undefined]

\* server.locals.secret[pgtIou], undefined when nothing is stored
Lookup(registry, pgtIou) ==
  IF pgtIou \in DOMAIN registry THEN registry[pgtIou] ELSE Undefined

\* a registry that keeps the first pgtId recorded for a pgtIou
RegistryAfterWriteOnce(registry, query) ==
  IF query.pgtIou # Undefined /\ query.pgtIou \notin DOMAIN registry
    THEN [k \in DOMAIN registry \cup {query.pgtIou} |->
            IF k = query.pgtIou THEN query.pgtId ELSE registry[k]]
    ELSE registry

\* a registry written without the test for pgtIou
RegistryAfterUnguarded(registry, query) ==
  [k \in DOMAIN registry \cup {query.pgtIou} |->
     IF k = query.pgtIou THEN query.pgtId ELSE registry[k]]

\* if (req.query.pgtIou !== undefined) server.locals.secret[pgtIou] = pgtId
RegistryAfter(registry, query) ==
  IF query.pgtIou # Undefined
    THEN [k \in DOMAIN registry \cup {query.pgtIou} |->
            IF k = query.pgtIou THEN query.pgtId ELSE registry[k]]
    ELSE registry

\* res.end('OK')
ResponseBody(query) == "OK"

NoPgt == [n |-> 0, query |-> [pgtIou |-> Undefined, pgtId |-> Undefined],
          before |-> EmptyRegistry, body |-> Undefined]

PgtQueries == [pgtIou : {Undefined, "", "PGTIOU-1", "PGTIOU-2"},
               pgtId : {Undefined, "PGT-1", "PGT-2"}]

pgtCallbackHandler(query) ==
  /\ pgt.n < MaxPgtCallbacks
  /\ secret' = RegistryAfter(secret, query)
  /\ pgt' = [n |-> pgt.n + 1, query |-> query, before |-> secret,
             body |-> ResponseBody(query)]
  /\ UNCHANGED <<ctorArgs, strategy, session, calls, last, history, urlProbe, parseProbe,
                 visit>>

----------------------------------------------------------------------------
(* serverGatewayLogin and gatewayHandler, src/routeHandlers.js:60-86, 147-176, *)
(* and the browser that follows their redirects                               *)

MaxVisits == 3

GateThreshold == 2

\* the gated pages the browser asks for (req.originalUrl)
Pages == {"/a", "/b"}

\* visit.at is where the browser's next request goes: "page" (a gated
\* page), "gateway" (the gateway route), "cas" (the login page of the CAS
\* server), or nowhere: "idle" before the first request, "served" once
\* serverGatewayLogin has called next(), "ldap" once gatewayHandler has
\* handed a user to redirectAuthenticatedUser.  user, redirectTo and
\* fallbackTo are the session's passport user and fields of those names;
\* visits, trips and grants count the page requests begun, the round trips
\* to the CAS server since the last grant, and the grants.
NoVisit ==
  [at |-> "idle", page |-> Undefined, url |-> NoUrl, user |-> Undefined,
   redirectTo |-> Undefined, fallbackTo |-> Undefined,
   visits |-> 0, trips |-> 0, grants |-> 0]

\* casGatewayUri + '?nextUrl=' + encodeURIComponent(req.originalUrl)
GatewayUrl(originalUrl) == Req(<<"loginGateway">>, << <<"nextUrl", originalUrl>> >>)

\* req.user after: if (req.user && req.user === 'anonymous-user') delete req.user
GateUser(user) == IF user = "anonymous-user" THEN Undefined ELSE user

\* req.session.gatewayAttempts >= 2
ExhaustedAttempts(sess) ==
  sess.gatewayAttempts.t = "number" /\ sess.gatewayAttempts.n >= GateThreshold

\* a gate that lets the visitor in and leaves the counter as it is
GateResetSkipped(sess) == sess

\* req.session.gatewayAttempts = 0
GateReset(sess) == [sess EXCEPT !.gatewayAttempts = Num(0)]

\* one serverGatewayLogin call as the session saw it
GateEvent(result, sessBefore, sessAfter) ==
  [op |-> "serverGatewayLogin", ticket |-> <<>>, result |-> result,
   before |-> sessBefore.gatewayAttempts, attempts |-> sessAfter.gatewayAttempts]

\* next(): the page is served
Granted(v) == [v EXCEPT !.at = "served", !.grants = v.grants + 1, !.trips = 0]

\* the browser asks for a gated page: at first, after a page was served,
\* or instead of following the redirect to the CAS server
Navigate(page) ==
  /\ visit.at \in {"idle", "served", "cas"}
  /\ visit.visits < MaxVisits
  /\ visit' = [visit EXCEPT !.at = "page", !.page = page, !.url = NoUrl,
                            !.visits = visit.visits + 1]
  /\ UNCHANGED <<ctorArgs, strategy, session, calls, last, history, urlProbe,
                 parseProbe, secret, pgt>>

\* serverGatewayLogin(fallback)(req, res, next) on a request with a session
serverGatewayLogin ==
  /\ visit.at = "page"
  /\ IF ExhaustedAttempts(session)
       THEN /\ session' = GateReset(session)
            /\ visit' = Granted(visit)
            /\ history' = Append(history, GateEvent("next", session, session'))
       ELSE IF TruthyStr(GateUser(visit.user))
         THEN /\ visit' = Granted(visit)
              /\ history' = Append(history, GateEvent("next", session, session))
              /\ UNCHANGED session
         ELSE /\ visit' = [visit EXCEPT !.at = "gateway",
                                        !.url = GatewayUrl(visit.page),
                                        !.redirectTo = visit.page,
                                        !.fallbackTo = "fallback"]
              /\ history' = Append(history, GateEvent("redirect", session, session))
              /\ UNCHANGED session
  /\ UNCHANGED <<ctorArgs, strategy, calls, last, urlProbe, parseProbe, secret, pgt>>

\* gatewayHandler on a request without a ticket: passport.authenticate
\* runs the strategy; a redirect goes to the browser as it is; success
\* reaches the custom callback, which logs the user in and sends the
\* anonymous user to req.query['nextUrl'], any other to
\* redirectAuthenticatedUser
gatewayHandler ==
  /\ visit.at = "gateway"
  /\ ~TruthyParam(QueryParam(visit.url.query, "ticket"))
  /\ AuthenticateBody(visit.url)
  /\ LET outcome == last'.outcome
         nextUrl == QueryParam(visit.url.query, "nextUrl")
     IN  IF outcome.kind = "redirect"
           THEN visit' = [visit EXCEPT !.at = "cas", !.url = outcome.url]
         ELSE IF outcome.user = "anonymous-user"
           THEN visit' = [visit EXCEPT !.at = "page", !.url = NoUrl,
                            !.user = outcome.user,
                            !.page = IF Len(nextUrl) = 1 THEN nextUrl[1] ELSE Undefined]
         ELSE visit' = [visit EXCEPT !.at = "ldap", !.url = NoUrl, !.user = outcome.user]
  /\ UNCHANGED <<ctorArgs, strategy, urlProbe, parseProbe, secret, pgt>>

\* the CAS server has no session for the visitor: asked with gateway=true
\* it sends the browser back to the service URL without a ticket
CasRedirectBack ==
  /\ visit.at = "cas"
  /\ visit' = [visit EXCEPT !.at = "gateway", !.url = visit.url.query[2][2],
                            !.trips = visit.trips + 1]
  /\ UNCHANGED <<ctorArgs, strategy, session, calls, last, history, urlProbe,
                 parseProbe, secret, pgt>>

----------------------------------------------------------------------------
(* The protocol: one strategy, one session, its authenticate calls *)

Args(casUrl, maxAttempts, anonymous) ==
  [optionsIsFunction |-> FALSE, casUrl |-> casUrl, parseCasXml |-> Undefined,
   request |-> Undefined, maxAttempts |-> maxAttempts, anonymous |-> anonymous,
   verify |-> "function"]

MainArgs ==
  { Args(CasRoot, NoNum, Undefined), Args(CasUnderPath, NoNum, Undefined),
    Args(CasRoot, Num(1), Undefined), Args(CasRoot, Num(3), "guest") }

MainRequests ==
  { Req(<<"protected">>, <<>>),
    Req(<<"loginGateway">>, << <<"nextUrl", "/a">> >>),
    Req(<<"protected">>, << <<"ticket", "">> >>),
    Req(<<"protected">>, << <<"ticket", "ST-1">> >>),
    Req(<<"loginGateway">>, << <<"nextUrl", "/a">>, <<"ticket", "ST-1">> >>) }

RequestErrors == {Undefined, "ETIMEDOUT"}

WireAnswers ==
  { <<"Unclosed root tag", NullResult>>,
    <<Undefined, NullResult>>,
    <<Undefined, Result(Response(<<>>, <<>>))>>,
    <<Undefined, Result(Response(<<FailureElem(TRUE, "INVALID_TICKET")>>, <<>>))>>,
    <<Undefined, Result(Response(<<>>, <<SuccessElem(<<"abc123">>)>>))>>,
    <<Undefined, Result(Response(<<FailureElem(TRUE, "INVALID_TICKET")>>,
                                 <<SuccessElem(<<"abc123">>)>>))>> }

VerifyResults ==
  { [err |-> "LDAP error", user |-> Undefined, info |-> Undefined],
    [err |-> Undefined, user |-> Undefined, info |-> "rejected"],
    [err |-> Undefined, user |-> "abc123", info |-> "pgtIou-1"] }

NoUrlProbe == [req |-> Req(<<>>, <<>>), done |-> FALSE, validation |-> NoValidation]

NoParseProbe == [err |-> Undefined, result |-> NullResult, done |-> FALSE, out |-> NoParse]

FreshSessions == { [gatewayAttempts |-> NoNum], [gatewayAttempts |-> Num(0)] }

Init ==
  /\ ctorArgs \in MainArgs
  /\ strategy = GatewayStrategy(ctorArgs)
  /\ strategy.status = "ready"
  /\ session \in FreshSessions
  /\ calls = <<>>
  /\ last = IdleCall
  /\ history = <<>>
  /\ urlProbe = NoUrlProbe
  /\ parseProbe = NoParseProbe
  /\ secret = EmptyRegistry
  /\ pgt = NoPgt
  /\ visit = NoVisit

Next ==
  \/ \E req \in MainRequests : Authenticate(req)
  \/ \E c \in 1..MaxCalls, err \in RequestErrors : RequestCallback(c, err)
  \/ \E c \in 1..MaxCalls, a \in WireAnswers : ParseCallback(c, a[1], a[2])
  \/ \E c \in 1..MaxCalls, res \in VerifyResults : VerifiedCallback(c, res)

Spec == Init /\ [][Next]_vars

----------------------------------------------------------------------------
(* Claims about the gateway round trips *)

\* the first k authenticate calls of the session carried no ticket
TicketlessPrefix(k) ==
  /\ k <= Len(history)
  /\ \A j \in 1..k : ~TruthyParam(history[j].ticket)

\* <casBase>/login?gateway=true&service=<request URL>
CasLoginRedirect(casUrl, req) ==
  [origin |-> casUrl.origin, path |-> casUrl.path \o <<"login">>,
   query |-> << <<"gateway", "true">>, <<"service", ServiceUrl(req)>> >>]

\* C1: from gatewayAttempts = 0 and with ceiling N = maxAttempts, the first
\* N ticket-less authenticate calls redirect with the counter at 1..N, and
\* call N+1 answers success with the anonymous identity, without a
\* redirect, the counter still N.
C1_CeilingSequence ==
  \A k \in 1..Len(history) :
    (TicketlessPrefix(k) /\ history[1].before = Num(0)) =>
      LET N == strategy.maxAttempts.n
      IN  /\ k <= N => /\ history[k].result = "redirect"
                       /\ history[k].attempts = Num(k)
          /\ k = N + 1 => /\ history[k].result = "success"
                          /\ history[k].attempts = Num(N)
                          /\ k = Len(history) =>
                               last.outcome = Success(strategy.anonymous, Undefined)

DefaultConfiguration ==
  /\ ctorArgs.maxAttempts = NoNum
  /\ ctorArgs.anonymous = Undefined
  /\ strategy.maxAttempts = Num(2)
  /\ strategy.anonymous = "anonymous-user"

\* the counters and outcomes of the default scenario, whatever the
\* redirect's target: redirect with 1, redirect with 2, anonymous success
DefaultScenarioCounters ==
  \A k \in 1..Len(history) :
    (DefaultConfiguration /\ TicketlessPrefix(k) /\ history[1].before = NoNum) =>
      /\ k \in {1, 2} => /\ history[k].result = "redirect"
                         /\ history[k].attempts = Num(k)
                         /\ k = Len(history) =>
                              /\ last.outcome.kind = "redirect"
                              /\ last.outcome.url.query =
                                   << <<"gateway", "true">>,
                                      <<"service", ServiceUrl(last.req)>> >>
      /\ k = 3 => /\ history[k].result = "success"
                  /\ k = Len(history) =>
                       last.outcome = Success("anonymous-user", Undefined)

\* C2: default configuration, fresh session without a gatewayAttempts
\* field: the first ticket-less call redirects to <casBase>/login with
\* gateway=true and service=<request URL> and sets the counter to 1, the
\* second redirects again and sets it to 2, the third does not redirect
\* and answers success("anonymous-user").
C2_DefaultScenario ==
  /\ DefaultScenarioCounters
  /\ \A k \in 1..2 :
       ( /\ DefaultConfiguration
         /\ TicketlessPrefix(k)
         /\ history[1].before = NoNum
         /\ k = Len(history) ) =>
           last.outcome = Redirect(CasLoginRedirect(ctorArgs.casUrl, last.req))

\* C3: an authenticate call with a non-empty ticket parameter sets
\* gatewayAttempts to 0 whatever it was, in the step that starts the
\* validation; the steps that end the validation (error, fail or success)
\* leave the session as it is.
C3_TicketResetsCounter ==
  [][ /\ ( /\ Len(history') = Len(history) + 1
           /\ TruthyParam(history'[Len(history')].ticket) )
          => session'.gatewayAttempts = Num(0)
      /\ Len(history') = Len(history) => session' = session ]_vars

C3_Witness ==
  /\ Len(history) = 3
  /\ history[3].before = Num(2)
  /\ TruthyParam(history[3].ticket)
  /\ history[3].attempts = Num(0)
  /\ last.ticket = history[3].ticket
  /\ last.outcome.kind = "fail"
  /\ session.gatewayAttempts = Num(0)

----------------------------------------------------------------------------
(* Claims about the outcome of a ticket-carrying call *)

\* the parsed body has a cas:serviceResponse envelope
CasEnvelope(result) == result.t = "object" /\ result.response.t = "object"

\* the text reason of the envelope's authentication failure, if it has one
CasFailureReason(result) ==
  LET f == result.response.failure
  IN  IF CasEnvelope(result) /\ f # <<>> /\ f[1].t = "object"
         /\ f[1].text \notin {Undefined, ""}
        THEN f[1].text ELSE Undefined

\* the user of the envelope's authentication success, if it has one
CasUser(result) ==
  LET s == result.response.success
  IN  IF CasEnvelope(result) /\ s # <<>> /\ s[1].t = "object"
         /\ s[1].users # <<>> /\ s[1].users[1] # ""
        THEN s[1].users[1] ELSE Undefined

\* C8: a ticket-carrying call ends in error, without verify being called,
\* after a transport error, an XML parse error, a malformed response or an
\* explicit CAS failure; after a parsed username verify is called, and its
\* error ends the call in error, no user in fail(info), a user in
\* success(user, info).
C8_ValidationOutcome ==
  (last.pc = "done" /\ TruthyParam(last.ticket)) =>
    LET a == last.answer
        v == last.verifyRes
        rejected == \/ last.http = "error"
                    \/ a.err # Undefined
                    \/ ~CasEnvelope(a.result)
                    \/ CasFailureReason(a.result) # Undefined
                    \/ CasUser(a.result) = Undefined
    IN  /\ last.outcome.kind \in {"success", "fail", "error"}
        /\ rejected => /\ last.outcome.kind = "error"
                       /\ last.verifyCalls = 0
        /\ (last.http = "ok" /\ a.err # Undefined) => last.outcome = Error(a.err)
        /\ (last.http = "ok" /\ a.err = Undefined
              /\ CasFailureReason(a.result) # Undefined)
             => last.outcome = Error(CasFailureReason(a.result))
        /\ ~rejected =>
             /\ last.verifyCalls = 1
             /\ v.err # Undefined => last.outcome = Error(v.err)
             /\ (v.err = Undefined /\ v.user = Undefined) => last.outcome = Fail(v.info)
             /\ (v.err = Undefined /\ v.user # Undefined)
                  => last.outcome = Success(v.user, v.info)

C8_Witness ==
  /\ last.pc = "done"
  /\ last.ticket = <<"ST-1">>
  /\ CasUser(last.answer.result) = "abc123"
  /\ last.verifyRes.user = Undefined
  /\ last.outcome = Fail("rejected")

----------------------------------------------------------------------------
(* The constructor on its own *)

InitCtor ==
  /\ ctorArgs = NoArgs
  /\ strategy = NotConstructed
  /\ session = [gatewayAttempts |-> NoNum]
  /\ calls = <<>>
  /\ last = IdleCall
  /\ history = <<>>
  /\ urlProbe = NoUrlProbe
  /\ parseProbe = NoParseProbe
  /\ secret = EmptyRegistry
  /\ pgt = NoPgt
  /\ visit = NoVisit

\* new GatewayStrategy(options, verify)
Construct(args) ==
  /\ strategy.status = "none"
  /\ ctorArgs' = args
  /\ strategy' = GatewayStrategy(args)
  /\ UNCHANGED <<session, calls, last, history, urlProbe, parseProbe, secret, pgt, visit>>

NextCtor == \E args \in CtorArgs : Construct(args)

SpecCtor == InitCtor /\ [][NextCtor]_vars

\* C7: constructing with an empty CAS URL, a verify that is no function or
\* a maxAttempts that is zero or negative throws, and no instance results;
\* maxAttempts = 0 is rejected, not replaced by the default.
C7_ConstructionFailsFast ==
  ( /\ strategy.status # "none"
    /\ ~ctorArgs.optionsIsFunction
    /\ \/ ctorArgs.casUrl = CasEmpty
       \/ ctorArgs.verify # "function"
       \/ (ctorArgs.maxAttempts.t = "number" /\ ctorArgs.maxAttempts.n <= 0) )
  => strategy.status = "thrown"

----------------------------------------------------------------------------
(* validateService's service URL over many request URLs *)

MaxParams == 3

UrlPairs ==
  { <<"ticket", "ST-1">>, <<"ticket", "">>, <<"nextUrl", "/a">>,
    <<"nextUrl", "ticket=ST-9">>, <<"lang", "sv">> }

UrlQueries == UNION { [1..n -> UrlPairs] : n \in 0..MaxParams }

DefaultStrategy == GatewayStrategy(Args(CasRoot, NoNum, Undefined))

InitUrl ==
  /\ ctorArgs = Args(CasRoot, NoNum, Undefined)
  /\ strategy = DefaultStrategy
  /\ session = [gatewayAttempts |-> NoNum]
  /\ calls = <<>>
  /\ last = IdleCall
  /\ history = <<>>
  /\ \E q \in UrlQueries :
       urlProbe = [NoUrlProbe EXCEPT !.req = Req(<<"loginGateway">>, q)]
  /\ parseProbe = NoParseProbe
  /\ secret = EmptyRegistry
  /\ pgt = NoPgt
  /\ visit = NoVisit

\* authenticate's hand-over to validateService, up to the GET it issues
BuildValidation ==
  /\ ~urlProbe.done
  /\ TruthyParam(QueryParam(urlProbe.req.query, "ticket"))
  /\ urlProbe' = [urlProbe EXCEPT !.done = TRUE,
                    !.validation = ValidationRequest(strategy,
                                     QueryParam(urlProbe.req.query, "ticket"),
                                     ServiceUrl(urlProbe.req))]
  /\ UNCHANGED <<ctorArgs, strategy, session, calls, last, history, parseProbe,
                 secret, pgt, visit>>

NextUrl == BuildValidation

SpecUrl == InitUrl /\ [][NextUrl]_vars

\* C4: whatever the request URL's query parameters, ticket included, the
\* service value sent to serviceValidate has no ticket query parameter.
C4_ServiceHasNoTicket ==
  urlProbe.done =>
    \A i \in 1..Len(urlProbe.validation.service.query) :
      urlProbe.validation.service.query[i][1] # "ticket"

C4_Witness ==
  /\ urlProbe.done
  /\ urlProbe.req.query = << <<"nextUrl", "/a">>, <<"lang", "sv">>, <<"ticket", "ST-1">> >>
  /\ urlProbe.validation.ticket = <<"ST-1">>
  /\ urlProbe.validation.service.path = <<"loginGateway">>

----------------------------------------------------------------------------
(* parseResponse over many parsed bodies *)

MaxElems == 2

MaxUsers == 2

SeqsUpTo(S, n) == UNION { [1..k -> S] : k \in 0..n }

FailureElems ==
  { FailureElem(TRUE, Undefined), FailureElem(TRUE, "INVALID_TICKET"),
    FailureElem(FALSE, ""), FailureElem(FALSE, "INVALID_TICKET") }

\* success elements with up to maxUsers cas:user children
SuccessElems(maxUsers) ==
  { SuccessElem(u) : u \in SeqsUpTo({"", "abc123"}, maxUsers) } \cup {EmptySuccessElem}

\* parse results whose arrays hold up to maxElems elements
ParsedResults(maxElems, maxUsers) ==
  {NullResult, Result(NoResponse), Result(EmptyResponse)} \cup
  { Result(Response(f, s)) : f \in SeqsUpTo(FailureElems, maxElems),
                             s \in SeqsUpTo(SuccessElems(maxUsers), maxElems) }

ParserAnswers(maxElems, maxUsers) ==
  {<<"Unclosed root tag", NullResult>>}
    \cup { <<Undefined, r>> : r \in ParsedResults(maxElems, maxUsers) }

InitParse ==
  /\ ctorArgs = Args(CasRoot, NoNum, Undefined)
  /\ strategy = DefaultStrategy
  /\ session = [gatewayAttempts |-> NoNum]
  /\ calls = <<>>
  /\ last = IdleCall
  /\ history = <<>>
  /\ urlProbe = NoUrlProbe
  /\ \E a \in ParserAnswers(MaxElems, MaxUsers) :
       parseProbe = [NoParseProbe EXCEPT !.err = a[1], !.result = a[2]]
  /\ secret = EmptyRegistry
  /\ pgt = NoPgt
  /\ visit = NoVisit

\* parseResponse(xml, callback) once parseCasXml has answered
ParseBody ==
  /\ ~parseProbe.done
  /\ parseProbe' = [parseProbe EXCEPT !.done = TRUE,
                      !.out = parseResponse(parseProbe.err, parseProbe.result)]
  /\ UNCHANGED <<ctorArgs, strategy, session, calls, last, history, urlProbe,
                 secret, pgt, visit>>

NextParse == ParseBody

SpecParse == InitParse /\ [][NextParse]_vars

----------------------------------------------------------------------------
(* The proxy-ticket registry on its own *)

InitPgt ==
  /\ ctorArgs = Args(CasRoot, NoNum, Undefined)
  /\ strategy = DefaultStrategy
  /\ session = [gatewayAttempts |-> NoNum]
  /\ calls = <<>>
  /\ last = IdleCall
  /\ history = <<>>
  /\ urlProbe = NoUrlProbe
  /\ parseProbe = NoParseProbe
  /\ secret = EmptyRegistry
  /\ pgt = NoPgt
  /\ visit = NoVisit

NextPgt == \E query \in PgtQueries : pgtCallbackHandler(query)

SpecPgt == InitPgt /\ [][NextPgt]_vars

\* C9: recording a pair that is already recorded leaves the registry as it
\* was; after a record the recorded pgtId is what lookup returns for the
\* pgtIou, whatever was stored before; a record for one pgtIou changes no
\* other pgtIou's entry.
C9_RegistryUpsert ==
  (pgt.n > 0 /\ pgt.query.pgtIou # Undefined) =>
    LET iou == pgt.query.pgtIou
        id == pgt.query.pgtId
    IN  /\ Lookup(secret, iou) = id
        /\ DOMAIN secret = DOMAIN pgt.before \cup {iou}
        /\ \A k \in DOMAIN secret \ {iou} : secret[k] = pgt.before[k]
        /\ (iou \in DOMAIN pgt.before /\ pgt.before[iou] = id) => secret = pgt.before

C9_Witness ==
  /\ pgt.n = 3
  /\ pgt.query = [pgtIou |-> "PGTIOU-1", pgtId |-> "PGT-2"]
  /\ "PGTIOU-1" \in DOMAIN pgt.before
  /\ "PGTIOU-2" \in DOMAIN pgt.before
  /\ pgt.before["PGTIOU-1"] = "PGT-1"
  /\ Lookup(secret, "PGTIOU-1") = "PGT-2"
  /\ Lookup(secret, "PGTIOU-2") = pgt.before["PGTIOU-2"]

\* C10: a pgtCallback request without a pgtIou parameter leaves the
\* registry unchanged; every pgtCallback request is answered with OK.
C10_ProbeIsNoOp ==
  pgt.n > 0 =>
    /\ pgt.body = "OK"
    /\ pgt.query.pgtIou = Undefined => secret = pgt.before

C10_Witness ==
  /\ pgt.n > 1
  /\ pgt.query.pgtIou = Undefined
  /\ pgt.query.pgtId = "PGT-1"
  /\ pgt.before # EmptyRegistry
  /\ secret = pgt.before
  /\ pgt.body = "OK"

----------------------------------------------------------------------------
(* Claims about the counter and the configured ceiling *)

\* C11: in a session that starts fresh gatewayAttempts never exceeds the
\* configured maxAttempts, and a redirect that increments the counter is
\* issued only while the counter is below maxAttempts.
C11_CounterWithinCeiling ==
  /\ session.gatewayAttempts.t = "number"
       => session.gatewayAttempts.n <= strategy.maxAttempts.n
  /\ \A k \in 1..Len(history) :
       history[k].result = "redirect" =>
         \/ history[k].before = NoNum
         \/ history[k].before.n < strategy.maxAttempts.n

----------------------------------------------------------------------------
(* Claims about the URLs authenticate and validateService build *)

\* C13: the service value sent to serviceValidate is the request URL with
\* every query parameter stripped except nextUrl: a request with a nextUrl
\* parameter gives a service URL with exactly that parameter and value, a
\* request without one gives a service URL with no query parameter at all.
C13_ServiceKeepsOnlyNextUrl ==
  urlProbe.done =>
    LET nextUrl == QueryParam(urlProbe.req.query, "nextUrl")
        service == urlProbe.validation.service
    IN  /\ service.origin = urlProbe.req.origin
        /\ service.path = urlProbe.req.path
        /\ Len(nextUrl) = 1 => service.query = << <<"nextUrl", nextUrl[1]>> >>
        /\ nextUrl = <<>> => service.query = <<>>

\* C14: every redirect authenticate issues goes to <casBase>/login with
\* exactly the two query parameters gateway=true and service=<protocol,
\* host and originalUrl of the request>, in particular without a ticket
\* parameter and without anything of the configured URL's query string.
C14_RedirectTarget ==
  (last.pc = "done" /\ last.outcome.kind = "redirect") =>
    /\ last.outcome.url.origin = ctorArgs.casUrl.origin
    /\ last.outcome.url.path = ctorArgs.casUrl.path \o <<"login">>
    /\ last.outcome.url.query =
         << <<"gateway", "true">>, <<"service", ServiceUrl(last.req)>> >>

----------------------------------------------------------------------------
(* Claims about the course of one authenticate call *)

\* C15: a ticket-carrying authenticate call issues exactly one GET to
\* serviceValidate, a ticket-less one none; after a transport failure the
\* call ends in error, still with that one request.
C15_OneRequestPerCall ==
  /\ \A c \in DOMAIN calls : TruthyParam(calls[c].ticket) /\ calls[c].requests = 1
  /\ last.pc = "done" =>
       /\ last.requests = IF TruthyParam(last.ticket) THEN 1 ELSE 0
       /\ last.http = "error" => /\ last.outcome.kind = "error"
                                 /\ last.outcome.err # Undefined
                                 /\ last.requests = 1

C15_Witness ==
  /\ last.pc = "done"
  /\ last.ticket = <<"ST-1">>
  /\ last.http = "error"
  /\ last.outcome = Error("ETIMEDOUT")
  /\ last.requests = 1
  /\ Len(calls) = 1
  /\ calls[1].pc = "request"

\* C18: each authenticate call ends in exactly one of redirect, success,
\* fail and error.  A ticket-less call ends within authenticate itself, in
\* a redirect or in success with the anonymous identity, and is never left
\* in flight; a ticket-carrying call has no outcome while it waits for one
\* of its callbacks and ends in success, fail or error, never in redirect.
C18_ExactlyOneOutcome ==
  /\ \A c \in DOMAIN calls :
       /\ TruthyParam(calls[c].ticket)
       /\ calls[c].pc \in {"request", "parse", "verify"}
       /\ calls[c].outcomes = 0
       /\ calls[c].outcome = NoOutcome
  /\ last.pc = "done" =>
       /\ last.outcomes = 1
       /\ IF TruthyParam(last.ticket)
            THEN last.outcome.kind \in {"success", "fail", "error"}
            ELSE \/ last.outcome.kind = "redirect"
                 \/ last.outcome = Success(strategy.anonymous, Undefined)
  /\ \A k \in 1..Len(history) :
       history[k].result \in {"redirect", "success"} <=> ~TruthyParam(history[k].ticket)

C18_Witness ==
  /\ last.pc = "done"
  /\ last.ticket = <<"ST-1">>
  /\ last.outcome.kind = "error"
  /\ last.parsed.err = "INVALID_TICKET"
  /\ last.outcomes = 1
  /\ Len(history) = 4
  /\ history[3].result = "success"

\* what C19 says of one authenticate call, in flight or ended
VerifyDiscipline(call) ==
  LET parsedUser == CasUser(call.answer.result)
      invoked == /\ call.pc \in {"verify", "done"}
                 /\ TruthyParam(call.ticket)
                 /\ call.http = "ok"
                 /\ call.answer.err = Undefined
                 /\ CasFailureReason(call.answer.result) = Undefined
                 /\ parsedUser # Undefined
  IN  /\ call.verifyCalls = IF invoked THEN 1 ELSE 0
      /\ invoked => call.verifyArg =
                      [status |-> TRUE, user |-> parsedUser, ticket |-> call.ticket]
      /\ ~invoked => call.verifyArg = NoVerifyArg /\ call.verifyRes = NoVerifyResult

\* C19: verify is called at most once per authenticate call, only once the
\* GET succeeded and parseResponse produced a username, and with
\* {status: true, user: <that username>, ticket: <the request's ticket>};
\* a call that redirects, that answers with the anonymous identity or that
\* fails in transport, parsing or at CAS never calls it, and the anonymous
\* identity is granted without a request to serviceValidate.
C19_VerifyDiscipline ==
  /\ \A c \in DOMAIN calls : VerifyDiscipline(calls[c])
  /\ VerifyDiscipline(last)
  /\ (last.pc = "done" /\ ~TruthyParam(last.ticket)) =>
       /\ last.verifyCalls = 0
       /\ last.requests = 0
       /\ last.http = "none"

C19_Witness ==
  /\ last.pc = "done"
  /\ last.ticket = <<"ST-1">>
  /\ last.verifyCalls = 1
  /\ last.verifyArg = [status |-> TRUE, user |-> "abc123", ticket |-> <<"ST-1">>]
  /\ last.outcome = Success("abc123", "pgtIou-1")
  /\ Len(history) > 1
  /\ history[Len(history) - 1].result = "success"

----------------------------------------------------------------------------
(* Claims about requests of one session that overlap *)

\* the index of the last ticket-carrying call in the history, 0 if none
LastValidate ==
  LET V == { k \in 1..Len(history) : history[k].result = "validate" }
  IN  IF V = {} THEN 0 ELSE CHOOSE k \in V : \A j \in V : j <= k

\* the redirects issued since then
RedirectsSinceValidate ==
  Cardinality({ k \in (LastValidate + 1)..Len(history) : history[k].result = "redirect" })

\* C17: requests of one session do not race on gatewayAttempts, however
\* ticket-less calls interleave with validations still pending: every call
\* finds the counter as the call before it left it, the session holds what
\* the last call wrote (no callback of a validation writes it later), and
\* the counter is the number of redirects issued since the last
\* ticket-carrying call (no increment is lost).
C17_NoRaceOnCounter ==
  /\ \A k \in 2..Len(history) : history[k].before = history[k - 1].attempts
  /\ history # <<>> => session.gatewayAttempts = history[Len(history)].attempts
  /\ RedirectsSinceValidate > 0 => session.gatewayAttempts = Num(RedirectsSinceValidate)
  /\ (RedirectsSinceValidate = 0 /\ LastValidate > 0) => session.gatewayAttempts = Num(0)

C17_Witness ==
  /\ Len(history) = 4
  /\ history[1].result = "validate"
  /\ history[2].result = "redirect"
  /\ history[3].result = "validate"
  /\ history[4].result = "redirect"
  /\ calls = <<>>
  /\ last.pc = "done"
  /\ TruthyParam(last.ticket)
  /\ last.verifyCalls = 1
  /\ session.gatewayAttempts = Num(1)

----------------------------------------------------------------------------
(* A validation endpoint that may stay silent *)

\* parseCasXml and the application's verify call back once they are called;
\* the GET of validateService is issued as { url, method: 'GET' } with no
\* timeout, so its callback comes only if the endpoint or the network
\* answers, which nothing in the code makes happen
SpecSilentEndpoint ==
  /\ Init
  /\ [][Next]_vars
  /\ WF_vars(\E c \in 1..MaxCalls, a \in WireAnswers : ParseCallback(c, a[1], a[2]))
  /\ WF_vars(\E c \in 1..MaxCalls, res \in VerifyResults : VerifiedCallback(c, res))

\* the same with an endpoint that always answers or fails
SpecAnsweringEndpoint ==
  /\ SpecSilentEndpoint
  /\ WF_vars(\E c \in 1..MaxCalls, err \in RequestErrors : RequestCallback(c, err))

\* C16: every ticket-carrying authenticate call eventually ends in success,
\* fail or error, even if the validation endpoint never responds: no
\* validation stays in flight for ever.
C16_ValidationEnds ==
  (calls # <<>>) ~> (calls = <<>> /\ last.outcome.kind \in {"success", "fail", "error"})

----------------------------------------------------------------------------
(* The gate, the gateway route and the strategy together: a visitor the  *)
(* CAS server does not know                                               *)

GateArgs ==
  { Args(CasRoot, NoNum, Undefined), Args(CasUnderPath, NoNum, Undefined),
    Args(CasRoot, Num(1), Undefined), Args(CasRoot, Num(3), Undefined) }

\* the session's passport user at the start: nobody, or a user logged in
\* before
GateUsers == {Undefined, "u1famwov"}

InitGate ==
  /\ ctorArgs \in GateArgs
  /\ strategy = GatewayStrategy(ctorArgs)
  /\ session \in FreshSessions
  /\ calls = <<>>
  /\ last = IdleCall
  /\ history = <<>>
  /\ urlProbe = NoUrlProbe
  /\ parseProbe = NoParseProbe
  /\ secret = EmptyRegistry
  /\ pgt = NoPgt
  /\ \E u \in GateUsers : visit = [NoVisit EXCEPT !.user = u]

NextGate ==
  \/ \E page \in Pages : Navigate(page)
  \/ serverGatewayLogin
  \/ gatewayHandler
  \/ CasRedirectBack

\* the server answers every request, the CAS server every login request,
\* and a browser left alone follows the redirect it was given
SpecGate ==
  /\ InitGate
  /\ [][NextGate]_vars
  /\ WF_vars(serverGatewayLogin)
  /\ WF_vars(gatewayHandler)
  /\ WF_vars(CasRedirectBack)

\* the authenticate calls recorded after the k-th event of the history
LaterAuthenticate(k) ==
  { j \in (k + 1)..Len(history) : history[j].op = "authenticate" }

====
